---- MODULE Spec2Model ----
(***************************************************************************)
(* Model of rtkv (github.com/johnknl/rtkv): RedisTKV, a key/value store    *)
(* kept in Redis together with a sorted set (the last-modified index) that *)
(* orders the keys by timestamp, and its two range readers.                *)
(*                                                                         *)
(* The Redis keyspace is the variable db.  Every Redis command the code    *)
(* issues is an operator on a keyspace (RSet, RZAdd, RDel, RZRem, RGet,    *)
(* RExists, RZCount, RZRangeByScore, RMGet) with the reply the server      *)
(* gives, WRONGTYPE errors included.  A MULTI/EXEC pipeline (TxPipelined)  *)
(* and a Lua script (EVALSHA) run in one step; FetchPage issues its three  *)
(* commands in three steps, between which the writer may act.              *)
(*                                                                         *)
(* Paginate is the variable pg: the call fetches the first page, and the   *)
(* consumer's loop over the returned sequence is one step per item and one *)
(* step per page fetch, or three when the page source is FetchPage (one    *)
(* per command) and two when it is FetchPageConsistent (getScriptSHA, then *)
(* EVALSHA).  The goroutines that call FetchPageConsistent at once, the    *)
(* mutex shaMx and the ScriptLoad commands are the variable reg.           *)
(***************************************************************************)
EXTENDS Integers, Sequences, FiniteSets, TLC

VARIABLES
    db,     \* the Redis keyspace: key -> [type, val, z]
    rec,    \* history: per id, the Record the successful writes so far define
    clean,  \* history: no write call has returned an error so far
    scriptSHA, \* RedisTKV.scriptSHA, the cached handle of the loaded script
    wr,     \* the last completed write call (Set, BulkSet, Delete) and its result
    rd,     \* the reader's call: Get, Exists, FetchPage or FetchPageConsistent
    pg,     \* a Paginate call and the consumer ranging over what it returned
    reg     \* shaMx and the FetchPageConsistent calls of concurrent goroutines

vars == <<db, rec, clean, scriptSHA, wr, rd, pg, reg>>

----------------------------------------------------------------------------
(* Bounds of the model *)

MaxBatch == 2
MaxOffset == 1
MaxLimit == 2

(* Program constants and the inputs the calls draw from *)

DelimPipe == "|"
lastModifiedIdxSuffix == "lmIdx"
namespace == "ns"
idDelimiter == DelimPipe

\* Composite identifiers: delimiter-free segments.
IDs == { <<"a">>, <<"b", "c">>, <<"lmIdx">> }
\* the ids of a store of three Records: those of IDs and one more
MoreIDs == IDs \cup { <<"d">> }
Payloads == { "p", "q" }
Times == { 1, 3 }

\* redis.Nil / a nil reply / a nil []byte
Nil == "<nil>"
\* a nil *time.Time
NoTime == -1
RangeBounds == { NoTime, 2 }

BulkSetRecord == [ID : IDs, Data : Payloads, LastModified : Times]

RECURSIVE SeqsUpTo(_, _)
SeqsUpTo(S, n) ==
    IF n = 0 THEN { <<>> }
    ELSE LET shorter == SeqsUpTo(S, n - 1)
         IN  shorter \cup { Append(s, x) : s \in { t \in shorter : Len(t) = n - 1 }, x \in S }

Batches == SeqsUpTo(BulkSetRecord, MaxBatch)

----------------------------------------------------------------------------
(* Key composition *)

RECURSIVE Join(_, _)
Join(parts, sep) ==
    IF Len(parts) = 0 THEN ""
    ELSE IF Len(parts) = 1 THEN parts[1]
    ELSE parts[1] \o sep \o Join(Tail(parts), sep)

namespacedKey(key) == namespace \o idDelimiter \o Join(key, idDelimiter)

IdxKey == namespacedKey(<<lastModifiedIdxSuffix>>)

\* UnixNano() of a LastModified
UnixNano(t) == t

\* float64(timestamp): exact below 2^53, rounded to the nearest multiple of
\* the spacing (ties to even) above it.
Below2p53(n) == ((n \div 1073741824) \div 8388608) = 0

RECURSIVE UlpOf(_)
UlpOf(n) == IF Below2p53(n) THEN 1 ELSE 2 * UlpOf(n \div 2)

Float64(n) ==
    LET a == IF n < 0 THEN -n ELSE n
        u == UlpOf(a)
        q == a \div u
        r == a % u
        m == IF 2 * r < u THEN q
             ELSE IF 2 * r > u THEN q + 1
             ELSE IF q % 2 = 0 THEN q ELSE q + 1
    IN  IF n < 0 THEN -(m * u) ELSE m * u

----------------------------------------------------------------------------
(* The Redis server: values, replies and commands *)

NoMembers == [m \in {} |-> 0]
StringVal(v) == [type |-> "string", val |-> v, z |-> NoMembers]
ZSetVal(z) == [type |-> "zset", val |-> "", z |-> z]

Put(d, k, v) == [x \in (DOMAIN d) \cup {k} |-> IF x = k THEN v ELSE d[x]]
Drop(d, k) == [x \in (DOMAIN d) \ {k} |-> d[x]]

IsString(d, k) == k \in DOMAIN d /\ d[k].type = "string"
IsZSet(d, k) == k \in DOMAIN d /\ d[k].type = "zset"
\* the members of the sorted set at k (none when k is absent)
ZMembers(d, k) == IF IsZSet(d, k) THEN DOMAIN d[k].z ELSE {}

\* A reply: err is the WRONGTYPE error, int an integer reply.
Reply(d, e, n) == [db |-> d, err |-> e, int |-> n]

\* SET key value
RSet(d, k, v) == Reply(Put(d, k, StringVal(v)), FALSE, 1)

\* ZADD key score member: 1 when the member is new, 0 when only its score changed
RZAdd(d, k, score, member) ==
    IF IsString(d, k) THEN Reply(d, TRUE, 0)
    ELSE LET z == IF IsZSet(d, k) THEN d[k].z ELSE NoMembers
             z2 == [m \in (DOMAIN z) \cup {member} |-> IF m = member THEN score ELSE z[m]]
         IN  Reply(Put(d, k, ZSetVal(z2)), FALSE, IF member \in DOMAIN z THEN 0 ELSE 1)

\* DEL key
RDel(d, k) == Reply(Drop(d, k), FALSE, IF k \in DOMAIN d THEN 1 ELSE 0)

\* ZREM key member [member ...]: an emptied sorted set is removed
RZRem(d, k, members) ==
    IF IsString(d, k) THEN Reply(d, TRUE, 0)
    ELSE IF ~IsZSet(d, k) THEN Reply(d, FALSE, 0)
    ELSE LET z == d[k].z
             gone == { members[i] : i \in DOMAIN members } \cap DOMAIN z
             z2 == [m \in (DOMAIN z) \ gone |-> z[m]]
         IN  Reply(IF DOMAIN z2 = {} THEN Drop(d, k) ELSE Put(d, k, ZSetVal(z2)),
                   FALSE, Cardinality(gone))

\* One queued command of a pipeline
Cmd(name, k, v, score, members) ==
    [name |-> name, key |-> k, val |-> v, score |-> score, members |-> members]

RunCmd(d, c) ==
    CASE c.name = "SET" -> RSet(d, c.key, c.val)
      [] c.name = "ZADD" -> RZAdd(d, c.key, c.score, c.members[1])
      [] c.name = "DEL" -> RDel(d, c.key)
      [] c.name = "ZREM" -> RZRem(d, c.key, c.members)

\* MULTI ... EXEC: the queued commands run in order with nothing in between; a
\* command that fails does not stop the ones after it.
RECURSIVE TxPipelined(_, _)
TxPipelined(d, cmds) ==
    IF Len(cmds) = 0 THEN [db |-> d, replies |-> <<>>]
    ELSE LET r == RunCmd(d, cmds[1])
             rest == TxPipelined(r.db, Tail(cmds))
         IN  [db |-> rest.db, replies |-> <<[err |-> r.err, int |-> r.int]>> \o rest.replies]

\* err of TxPipelined: the first failed command's error
TxErr(replies) == \E i \in DOMAIN replies : replies[i].err

\* GET key: the value, redis.Nil for an absent key, WRONGTYPE for a sorted set
RGet(d, k) ==
    IF IsZSet(d, k) THEN [err |-> TRUE, val |-> Nil]
    ELSE [err |-> FALSE, val |-> IF IsString(d, k) THEN d[k].val ELSE Nil]

\* EXISTS key: 1 for a key of any type
RExists(d, k) == IF k \in DOMAIN d THEN 1 ELSE 0

\* A score bound as the server parses it: "-inf"/"+inf", or the decimal text of
\* the integer read as a double.
InRange(score, min, max) ==
    /\ (min = NoTime \/ Float64(min) <= score)
    /\ (max = NoTime \/ score <= Float64(max))

\* The server orders a sorted set by score and, for equal scores, by the bytes
\* of the member: the composed keys of MoreIDs in that order.
MemberOrder ==
    << namespacedKey(<<"a">>), namespacedKey(<<"b", "c">>), namespacedKey(<<"d">>),
       namespacedKey(<<"lmIdx">>) >>
MemberRank(m) == CHOOSE i \in DOMAIN MemberOrder : MemberOrder[i] = m
Before(z, m1, m2) ==
    \/ z[m1] < z[m2]
    \/ z[m1] = z[m2] /\ MemberRank(m1) < MemberRank(m2)

RECURSIVE Ascending(_, _)
Ascending(z, ms) ==
    IF ms = {} THEN <<>>
    ELSE LET first == CHOOSE m \in ms : \A o \in ms \ {m} : Before(z, m, o)
         IN  <<first>> \o Ascending(z, ms \ {first})

\* the members with score in [min, max], ascending
RangeMembers(d, k, min, max) ==
    LET z == d[k].z
    IN  Ascending(z, { m \in DOMAIN z : InRange(z[m], min, max) })

\* ZCOUNT key min max
RZCount(d, k, min, max) ==
    IF IsString(d, k) THEN [err |-> TRUE, int |-> 0]
    ELSE IF ~IsZSet(d, k) THEN [err |-> FALSE, int |-> 0]
    ELSE [err |-> FALSE, int |-> Len(RangeMembers(d, k, min, max))]

\* items offset+1 .. offset+count of s (all from offset on when count < 0)
Limit(s, offset, count) ==
    IF offset < 0 THEN <<>>
    ELSE LET last == IF count < 0 \/ offset + count > Len(s) THEN Len(s) ELSE offset + count
         IN  IF offset >= last THEN <<>> ELSE SubSeq(s, offset + 1, last)

\* ZRANGEBYSCORE key min max [LIMIT offset count] / ZRANGE key min max BYSCORE LIMIT offset count
RZRangeByScore(d, k, min, max, withLimit, offset, count) ==
    IF IsString(d, k) THEN [err |-> TRUE, keys |-> <<>>]
    ELSE IF ~IsZSet(d, k) THEN [err |-> FALSE, keys |-> <<>>]
    ELSE LET all == RangeMembers(d, k, min, max)
         IN  [err |-> FALSE, keys |-> IF withLimit THEN Limit(all, offset, count) ELSE all]

\* MGET key [key ...]: nil for a key that is absent or holds no string
RMGet(d, keys) == [i \in DOMAIN keys |-> IF IsString(d, keys[i]) THEN d[keys[i]].val ELSE Nil]

\* A script that counts by score and selects by rank alone.
rangeScriptSelectsByRank(d, key, min, max, offset, count) ==
    LET total == RZCount(d, key, min, max)
        keys == RZRangeByScore(d, key, NoTime, NoTime, TRUE, offset, count)
    IN  IF total.err THEN [err |-> TRUE, total |-> 0, values |-> <<>>]
        ELSE IF total.int = 0 THEN [err |-> FALSE, total |-> 0, values |-> <<>>]
        ELSE IF Len(keys.keys) = 0 THEN [err |-> FALSE, total |-> 0, values |-> <<>>]
        ELSE [err |-> FALSE, total |-> total.int, values |-> RMGet(d, keys.keys)]

\* The Lua script, run by the server in one piece.
rangeScript(d, key, min, max, offset, count) ==
    LET total == RZCount(d, key, min, max)
        keys == RZRangeByScore(d, key, min, max, TRUE, offset, count)
    IN  IF total.err THEN [err |-> TRUE, total |-> 0, values |-> <<>>]
        ELSE IF total.int = 0 THEN [err |-> FALSE, total |-> 0, values |-> <<>>]
        ELSE IF Len(keys.keys) = 0 THEN [err |-> FALSE, total |-> 0, values |-> <<>>]
        ELSE [err |-> FALSE, total |-> total.int, values |-> RMGet(d, keys.keys)]

----------------------------------------------------------------------------
(* The iterator both readers return: it yields s2b(rawValue.(string)) for each *)
(* raw value in turn; the type assertion panics on a nil value.               *)

NilAt(raw) == { i \in DOMAIN raw : raw[i] = Nil }
FirstNil(raw) == CHOOSE i \in NilAt(raw) : \A j \in NilAt(raw) : i <= j
\* true when iterating to the end aborts with a panic
Panics(raw) == NilAt(raw) # {}
\* the payloads a consumer that never stops receives
Yielded(raw) == IF Panics(raw) THEN SubSeq(raw, 1, FirstNil(raw) - 1) ELSE raw

----------------------------------------------------------------------------
(* History: the Record each id has after the successful writes so far *)

NoRecord == [live |-> FALSE, data |-> Nil, ts |-> 0]
Record(data, ts) == [live |-> TRUE, data |-> data, ts |-> ts]

RECURSIVE Written(_, _)
Written(r, records) ==
    IF Len(records) = 0 THEN r
    ELSE Written([r EXCEPT ![records[1].ID] = Record(records[1].Data, records[1].LastModified)],
                 Tail(records))

----------------------------------------------------------------------------
(* Replies to EVALSHA as the client hands them over: an int64, a string, nil *)
(* or a list ([]any) of such values                                          *)

Val(kind, int, list) == [kind |-> kind, int |-> int, list |-> list]
NoReply == Val("none", 0, <<>>)
IntVal(n) == Val("int", n, <<>>)
ListVal(elems) == Val("list", 0, elems)
StrVal == Val("string", 0, <<>>)
NilVal == Val("nil", 0, <<>>)

\* return { total, values } of the script
ScriptReply(total, values) == ListVal(<< IntVal(total), ListVal(values) >>)

\* Replies a server could give in place of the script's: not a list, a list
\* of another length, a total that is no integer, values that are no list.
DriftedReplies ==
    { IntVal(1), StrVal, NilVal,
      ListVal(<<>>), ListVal(<<IntVal(1)>>),
      ListVal(<<IntVal(1), ListVal(<<"p">>), IntVal(0)>>),
      ListVal(<<StrVal, ListVal(<<"p">>)>>), ListVal(<<NilVal, ListVal(<<"p">>)>>),
      ListVal(<<IntVal(1), StrVal>>), ListVal(<<IntVal(1), NilVal>>),
      ListVal(<<IntVal(1), IntVal(1)>>),
      ScriptReply(1, <<"p">>) }

ErrUnexpectedScriptResult == "unexpected result from lua script"

\* What FetchPageConsistent makes of a reply: the named error when it is no
\* list of two elements; resultSlice[0].(int64) and resultSlice[1].([]any)
\* panic when the element is of another type.
Decode(reply) ==
    IF reply.kind # "list" \/ Len(reply.list) # 2
    THEN [pc |-> "done", err |-> TRUE, why |-> ErrUnexpectedScriptResult, total |-> 0, raw |-> <<>>]
    ELSE IF reply.list[1].kind # "int" \/ reply.list[2].kind # "list"
    THEN [pc |-> "panic", err |-> FALSE, why |-> "", total |-> 0, raw |-> <<>>]
    ELSE [pc |-> "done", err |-> FALSE, why |-> "",
          total |-> reply.list[1].int, raw |-> reply.list[2].list]

----------------------------------------------------------------------------
(* Results of calls *)

NoWrite ==
    [op |-> "none", ids |-> {}, err |-> FALSE, existed |-> FALSE, prior |-> FALSE,
     n |-> 0, same |-> TRUE]

Idle ==
    [op |-> "none", pc |-> "done", id |-> <<>>, from |-> NoTime, to |-> NoTime,
     offset |-> 0, limit |-> 0, total |-> 0, keys |-> <<>>, raw |-> <<>>,
     val |-> Nil, found |-> FALSE, err |-> FALSE, dirty |-> FALSE,
     why |-> "", reply |-> NoReply]

InFlight == rd.pc # "done"

\* a write that lands while a range read is in flight marks that read
Interleaved == IF InFlight THEN [rd EXCEPT !.dirty = TRUE] ELSE rd

----------------------------------------------------------------------------
(* RedisTKV: the write calls, each one MULTI/EXEC pipeline *)

SetCmds(data, lastModified, id) ==
    LET timestamp == UnixNano(lastModified)
        key == namespacedKey(id)
    IN  << Cmd("SET", key, data, 0, <<>>),
           Cmd("ZADD", IdxKey, "", Float64(timestamp), <<key>>) >>

Set(data, lastModified, id) ==
    LET tx == TxPipelined(db, SetCmds(data, lastModified, id))
        err == TxErr(tx.replies)
    IN  /\ wr = NoWrite
        /\ db' = tx.db
        /\ rec' = IF err THEN rec ELSE [rec EXCEPT ![id] = Record(data, lastModified)]
        /\ clean' = (clean /\ ~err)
        /\ wr' = [op |-> "Set", ids |-> {id}, err |-> err,
                  existed |-> (~err /\ tx.replies[2].int = 0),
                  prior |-> (RExists(db, namespacedKey(id)) > 0),
                  n |-> 1, same |-> (tx.db = db)]
        /\ rd' = Interleaved
        /\ UNCHANGED <<scriptSHA, pg, reg>>

\* A BulkSet that queues the commands of its first record only.
BulkSetCmdsFirstOnly(records) ==
    IF Len(records) = 0 THEN <<>>
    ELSE LET timestamp == UnixNano(records[1].LastModified)
             key == namespacedKey(records[1].ID)
         IN  << Cmd("SET", key, records[1].Data, 0, <<>>),
                Cmd("ZADD", IdxKey, "", Float64(timestamp), <<key>>) >>

RECURSIVE BulkSetCmds(_)
BulkSetCmds(records) ==
    IF Len(records) = 0 THEN <<>>
    ELSE LET timestamp == UnixNano(records[1].LastModified)
             key == namespacedKey(records[1].ID)
         IN  << Cmd("SET", key, records[1].Data, 0, <<>>),
                Cmd("ZADD", IdxKey, "", Float64(timestamp), <<key>>) >>
             \o BulkSetCmds(Tail(records))

BulkSet(records) ==
    LET empty == Len(records) = 0
        tx == IF empty THEN [db |-> db, replies |-> <<>>]
              ELSE TxPipelined(db, BulkSetCmds(records))
        err == TxErr(tx.replies)
    IN  /\ wr = NoWrite
        /\ db' = tx.db
        /\ rec' = IF err THEN rec ELSE Written(rec, records)
        /\ clean' = (clean /\ ~err)
        /\ wr' = [op |-> "BulkSet", ids |-> { records[i].ID : i \in DOMAIN records },
                  err |-> err, existed |-> FALSE, prior |-> FALSE,
                  n |-> Len(records), same |-> (tx.db = db)]
        /\ rd' = Interleaved
        /\ UNCHANGED <<scriptSHA, pg, reg>>

\* ZRem is handed the id's segments, which the client sends as the members
DeleteCmds(id) ==
    << Cmd("DEL", namespacedKey(id), "", 0, <<>>),
       Cmd("ZREM", IdxKey, "", 0, id) >>

Delete(id) ==
    LET tx == TxPipelined(db, DeleteCmds(id))
        err == TxErr(tx.replies)
    IN  /\ wr = NoWrite
        /\ db' = tx.db
        /\ rec' = IF err THEN rec ELSE [rec EXCEPT ![id] = NoRecord]
        /\ clean' = (clean /\ ~err)
        /\ wr' = [op |-> "Delete", ids |-> {id}, err |-> err, existed |-> FALSE,
                  prior |-> (RExists(db, namespacedKey(id)) > 0),
                  n |-> 1, same |-> (tx.db = db)]
        /\ rd' = Interleaved
        /\ UNCHANGED <<scriptSHA, pg, reg>>

----------------------------------------------------------------------------
(* RedisTKV: the single-command reads *)

Get(id) ==
    LET r == RGet(db, namespacedKey(id))
    IN  /\ rd = Idle
        /\ rd' = [Idle EXCEPT !.op = "Get", !.id = id, !.val = r.val, !.err = r.err]
        /\ UNCHANGED <<db, rec, clean, scriptSHA, wr, pg, reg>>

Exists(id) ==
    /\ rd = Idle
    /\ rd' = [Idle EXCEPT !.op = "Exists", !.id = id,
                          !.found = (RExists(db, namespacedKey(id)) > 0)]
    /\ UNCHANGED <<db, rec, clean, scriptSHA, wr, pg, reg>>

----------------------------------------------------------------------------
(* RedisTKV.FetchPage: three commands, one round trip each *)

FetchPageCount(from, to, offset, limit) ==
    LET total == RZCount(db, IdxKey, from, to)
        call == [Idle EXCEPT !.op = "FetchPage", !.from = from, !.to = to,
                             !.offset = offset, !.limit = limit]
    IN  /\ rd = Idle
        /\ rd' = IF total.err THEN [call EXCEPT !.err = TRUE]
                 ELSE [call EXCEPT !.pc = "zrangebyscore", !.total = total.int]
        /\ UNCHANGED <<db, rec, clean, scriptSHA, wr, pg, reg>>

\* the client sends LIMIT only when Offset or Count is not zero
FetchPageRange ==
    LET result == RZRangeByScore(db, IdxKey, rd.from, rd.to,
                                 rd.offset # 0 \/ rd.limit # 0, rd.offset, rd.limit)
    IN  /\ rd.op = "FetchPage" /\ rd.pc = "zrangebyscore"
        /\ rd' = IF result.err THEN [rd EXCEPT !.pc = "done", !.err = TRUE, !.total = 0]
                 ELSE IF Len(result.keys) = 0 THEN [rd EXCEPT !.pc = "done"]
                 ELSE [rd EXCEPT !.pc = "mget", !.keys = result.keys]
        /\ UNCHANGED <<db, rec, clean, scriptSHA, wr, pg, reg>>

FetchPageMGet ==
    /\ rd.op = "FetchPage" /\ rd.pc = "mget"
    /\ rd' = [rd EXCEPT !.pc = "done", !.raw = RMGet(db, rd.keys)]
    /\ UNCHANGED <<db, rec, clean, scriptSHA, wr, pg, reg>>

----------------------------------------------------------------------------
(* RedisTKV.FetchPageConsistent: load the script once, then one EVALSHA *)

ScriptHandle == "sha1"

getScriptSHA == IF scriptSHA # "" THEN scriptSHA ELSE ScriptHandle

FetchPageConsistentLoad(from, to, offset, limit) ==
    /\ rd = Idle
    /\ scriptSHA' = getScriptSHA
    /\ rd' = [Idle EXCEPT !.op = "FetchPageConsistent", !.pc = "evalsha",
                          !.from = from, !.to = to, !.offset = offset, !.limit = limit]
    /\ UNCHANGED <<db, rec, clean, wr, pg, reg>>

\* the call's result once the reply is decoded
Decoded(call, reply) ==
    LET d == Decode(reply)
    IN  [call EXCEPT !.pc = d.pc, !.err = d.err, !.why = d.why, !.total = d.total,
                     !.raw = d.raw, !.reply = reply]

FetchPageConsistentEval ==
    LET result == rangeScript(db, IdxKey, rd.from, rd.to, rd.offset, rd.limit)
    IN  /\ rd.op = "FetchPageConsistent" /\ rd.pc = "evalsha"
        /\ rd' = IF result.err
                 THEN [rd EXCEPT !.pc = "done", !.err = TRUE,
                                 !.why = "failed to execute search.lua script"]
                 ELSE Decoded(rd, ScriptReply(result.total, result.values))
        /\ UNCHANGED <<db, rec, clean, scriptSHA, wr, pg, reg>>

\* EVALSHA answered by a server whose reply is not the script's.  The client
\* reads a nil reply as the error redis.Nil, which EvalSha(...).Result()
\* returns; every other reply is its value.
FetchPageConsistentDrift(reply) ==
    /\ rd.op = "FetchPageConsistent" /\ rd.pc = "evalsha"
    /\ rd' = IF reply.kind = "nil"
             THEN [rd EXCEPT !.pc = "done", !.err = TRUE, !.reply = reply,
                             !.why = "failed to execute search.lua script: redis: nil"]
             ELSE Decoded(rd, reply)
    /\ UNCHANGED <<db, rec, clean, scriptSHA, wr, pg, reg>>

----------------------------------------------------------------------------
(* Page sources: what a PageFunc returns *)

MaxItems == 6
MaxCalls == 7

\* the items of the test's source, and one more
ItemNames == << "item1", "item2", "item3", "item4", "item5", "item6", "item7" >>
Causes == { "mock error", "mock error on next page", "context canceled" }

\* what a PageFunc returns: the sequence (nilIt when it is a nil func), the
\* total and the error ("" for nil)
Page(it, nilIt, total, err) == [it |-> it, nilIt |-> nilIt, total |-> total, err |-> err]

\* A page source of the tests.  "static" is mockPageFunc(pages): past the end
\* it returns a nil sequence, or the empty sequence as FetchPage does.
\* "errorOnFirstPage" is the pageFn that fails at every call with cause.
\* "errorOnNextPage" is the pageFn that returns all of pages and total at
\* offset 0, whatever the limit, and fails with cause at every other offset.
Source(kind, pages, nilPastEnd, total, cause) ==
    [kind |-> kind, pages |-> pages, nilPastEnd |-> nilPastEnd, total |-> total, cause |-> cause]

NoSource == Source("none", <<>>, FALSE, 0, "")
StaticSources ==
    { Source("static", SubSeq(ItemNames, 1, n), b, n, "") : n \in 0 .. MaxItems, b \in BOOLEAN }
FailingSources ==
    { Source("errorOnFirstPage", <<>>, TRUE, 0, c) : c \in Causes }
        \cup { Source("errorOnNextPage", SubSeq(ItemNames, 1, n), TRUE, total, c) :
                   n \in 0 .. MaxItems, total \in 0 .. MaxItems, c \in Causes }
StoreSources ==
    { Source("FetchPage", <<>>, FALSE, 0, ""), Source("FetchPageConsistent", <<>>, FALSE, 0, "") }

mockPageFunc(src, offset, limit) ==
    LET n == Len(src.pages)
        end == IF offset + limit > n THEN n ELSE offset + limit
    IN  IF offset >= n THEN Page(<<>>, src.nilPastEnd, n, "")
        ELSE Page(SubSeq(src.pages, offset + 1, end), FALSE, n, "")

\* return nil, 0, errors.New("mock error")
pageFnErrorOnFirstPage(src, offset, limit) == Page(<<>>, TRUE, 0, src.cause)

\* if offset == 0 { return <firstPage>, 4, nil }
\* return nil, 4, errors.New("mock error on next page")
pageFnErrorOnNextPage(src, offset, limit) ==
    IF offset = 0 THEN Page(src.pages, FALSE, src.total, "")
    ELSE Page(<<>>, TRUE, src.total, src.cause)

\* FetchPage with no write between its three commands
FetchPage(d, from, to, offset, limit) ==
    LET total == RZCount(d, IdxKey, from, to)
        result == RZRangeByScore(d, IdxKey, from, to, offset # 0 \/ limit # 0, offset, limit)
    IN  IF total.err THEN Page(<<>>, TRUE, 0, "failed to count")
        ELSE IF result.err THEN Page(<<>>, TRUE, 0, "failed to execute zrangebyscore")
        ELSE IF Len(result.keys) = 0 THEN Page(<<>>, FALSE, total.int, "")
        ELSE Page(RMGet(d, result.keys), FALSE, total.int, "")

\* FetchPageConsistent with the script loaded
FetchPageConsistent(d, from, to, offset, limit) ==
    LET result == rangeScript(d, IdxKey, from, to, offset, limit)
    IN  IF result.err THEN Page(<<>>, TRUE, 0, "failed to execute search.lua script")
        ELSE Page(result.values, FALSE, result.total, "")


----------------------------------------------------------------------------
(* Paginate and the consumer that ranges over the sequence it returns *)

\* one item of a sequence: payload and error ("" for nil)
Item(b, err) == [b |-> b, err |-> err]
Items(bs) == [i \in DOMAIN bs |-> Item(bs[i], "")]

NoPaginate ==
    [pc |-> "idle", src |-> NoSource, from |-> NoTime, to |-> NoTime, first |-> 0,
     offset |-> 0, limit |-> 0, total |-> 0, it |-> <<>>, nilIt |-> FALSE, pos |-> 0,
     wrapped |-> FALSE, out |-> <<>>, calls |-> 0, asked |-> <<>>, err |-> "",
     cause |-> "", left |-> FALSE, counted |-> 0, keys |-> <<>>, totals |-> <<>>, fetched |-> <<>>]

\* An offset that advances one too far, and a last-page test that is late by one.
NextOffsetSkips(offset, limit) == offset + limit + 1
LastPageLate(offset, total) == offset > total

\* A loop that asks for the next page whatever total the last one reported.
LastPageNever(offset, total) == FALSE

\* offset += limit
NextOffset(offset, limit) == offset + limit
\* offset >= int(total): no page is left
LastPage(offset, total) == offset >= total
\* int(total) <= limit: the first page is all there is
SinglePage(total, limit) == total <= limit

\* fmt.Errorf(text + ": %w", err)
Errorf(text, err) == text \o ": " \o err

\* A first-page failure handed over as an item of a sequence, a next-page
\* failure that ends the sequence without an item, and a loop that goes on
\* after the consumer has left.
FirstPageFailedAsItem(call, err) ==
    [call EXCEPT !.pc = "done", !.out = <<Item(Nil, Errorf("fetching first page failed", err))>>]
NextPageFailedSilently(called, err) == [called EXCEPT !.pc = "done"]
AfterYieldGoesOn(more) == "ranging"

\* return nil, fmt.Errorf("fetching first page failed: %w", err)
FirstPageFailed(call, err) ==
    [call EXCEPT !.pc = "failed", !.err = Errorf("fetching first page failed", err)]
\* the failure of a later page is kept for the one item that reports it
NextPageFailed(called, err) == [called EXCEPT !.pc = "failing", !.cause = err]
\* if !yield(b, err) { return }
AfterYield(more) == IF more THEN "ranging" ELSE "stopped"

\* pageFn has returned the page p to the call: to Paginate itself when it is
\* the first call, to the loop of the paging sequence otherwise.  totals keeps
\* the total of every page returned so far, fetched the values of those pages.
Returned(call, p) ==
    IF call.calls = 1
    THEN IF p.err # "" THEN FirstPageFailed(call, p.err)
         ELSE [call EXCEPT !.pc = "ranging", !.it = p.it, !.nilIt = p.nilIt,
                           !.total = p.total, !.totals = Append(call.totals, p.total),
                           !.fetched = call.fetched \o p.it,
                           !.wrapped = ~SinglePage(p.total, call.limit)]
    ELSE IF p.err # "" THEN NextPageFailed(call, p.err)
         ELSE [call EXCEPT !.pc = "ranging", !.it = p.it, !.nilIt = p.nilIt,
                           !.total = p.total, !.totals = Append(call.totals, p.total),
                           !.fetched = call.fetched \o p.it,
                           !.pos = 0]

\* pageFn is called.  FetchPage sends ZCOUNT and goes on to its second
\* command; FetchPageConsistent has gone through getScriptSHA and goes on to
\* EVALSHA; a page function of the tests answers in this step.
Called(call) ==
    CASE call.src.kind = "FetchPage" ->
             LET total == RZCount(db, IdxKey, call.from, call.to)
             IN  IF total.err THEN Returned(call, Page(<<>>, TRUE, 0, "failed to count"))
                 ELSE [call EXCEPT !.pc = "zrangebyscore", !.counted = total.int]
      [] call.src.kind = "FetchPageConsistent" -> [call EXCEPT !.pc = "evalsha"]
      [] call.src.kind = "errorOnFirstPage" ->
             Returned(call, pageFnErrorOnFirstPage(call.src, call.offset, call.limit))
      [] call.src.kind = "errorOnNextPage" ->
             Returned(call, pageFnErrorOnNextPage(call.src, call.offset, call.limit))
      [] OTHER -> Returned(call, mockPageFunc(call.src, call.offset, call.limit))

\* The call: the first page is fetched; its sequence is returned as it is when
\* the total fits the limit, and the paging sequence otherwise.
Paginate(src, from, to, offset, limit) ==
    LET call == [NoPaginate EXCEPT !.src = src, !.from = from, !.to = to, !.first = offset,
                                   !.offset = offset, !.limit = limit, !.calls = 1,
                                   !.asked = <<offset>>]
    IN  /\ pg.pc = "idle"
        /\ pg' = Called(call)
        /\ scriptSHA' = IF src.kind = "FetchPageConsistent" THEN getScriptSHA ELSE scriptSHA
        /\ UNCHANGED <<db, rec, clean, wr, rd, reg>>

\* FetchPageConsistent as the source, after getScriptSHA has returned: EVALSHA
PaginateEvalSha ==
    /\ pg.pc = "evalsha"
    /\ pg' = Returned(pg, FetchPageConsistent(db, pg.from, pg.to, pg.offset, pg.limit))
    /\ UNCHANGED <<db, rec, clean, scriptSHA, wr, rd, reg>>

\* FetchPage as the source, second command: ZRANGEBYSCORE; an empty selection
\* is returned as the empty sequence with the total counted before
PaginateRange ==
    LET result == RZRangeByScore(db, IdxKey, pg.from, pg.to,
                                 pg.offset # 0 \/ pg.limit # 0, pg.offset, pg.limit)
    IN  /\ pg.pc = "zrangebyscore"
        /\ pg' = IF result.err
                 THEN Returned(pg, Page(<<>>, TRUE, 0, "failed to execute zrangebyscore"))
                 ELSE IF Len(result.keys) = 0 THEN Returned(pg, Page(<<>>, FALSE, pg.counted, ""))
                 ELSE [pg EXCEPT !.pc = "mget", !.keys = result.keys]
        /\ UNCHANGED <<db, rec, clean, scriptSHA, wr, rd, reg>>

\* FetchPage as the source, third command: MGET of the selected keys
PaginateMGet ==
    /\ pg.pc = "mget"
    /\ pg' = Returned(pg, Page(RMGet(db, pg.keys), FALSE, pg.counted, ""))
    /\ UNCHANGED <<db, rec, clean, scriptSHA, wr, rd, reg>>

\* the next value of the current page reaches the consumer's loop body, which
\* goes on (more) or leaves the loop
PaginateYield(more) ==
    /\ pg.pc = "ranging" /\ ~pg.nilIt
    /\ pg.pos < Len(pg.it) /\ pg.it[pg.pos + 1] # Nil
    /\ pg' = [pg EXCEPT !.pos = pg.pos + 1,
                        !.out = Append(pg.out, Item(pg.it[pg.pos + 1], "")),
                        !.left = ~more, !.pc = AfterYield(more)]
    /\ UNCHANGED <<db, rec, clean, scriptSHA, wr, rd, reg>>

\* ranging over a nil sequence, or rawValue.(string) on a nil value
PaginatePanic ==
    /\ pg.pc = "ranging"
    /\ pg.nilIt \/ (pg.pos < Len(pg.it) /\ pg.it[pg.pos + 1] = Nil)
    /\ pg' = [pg EXCEPT !.pc = "panic"]
    /\ UNCHANGED <<db, rec, clean, scriptSHA, wr, rd, reg>>

\* the current page is exhausted: the sequence ends, or the next page is fetched
PaginateNextPage ==
    LET offset == NextOffset(pg.offset, pg.limit)
        called == [pg EXCEPT !.offset = offset, !.calls = pg.calls + 1,
                             !.asked = Append(pg.asked, offset)]
        ends == ~pg.wrapped \/ LastPage(offset, pg.total)
    IN  /\ pg.pc = "ranging" /\ ~pg.nilIt /\ pg.pos = Len(pg.it)
        /\ ~ends => pg.calls < MaxCalls
        /\ pg' = IF ~pg.wrapped THEN [pg EXCEPT !.pc = "done"]
                 ELSE IF LastPage(offset, pg.total) THEN [pg EXCEPT !.pc = "done", !.offset = offset]
                 ELSE Called(called)
        /\ scriptSHA' = IF ~ends /\ pg.src.kind = "FetchPageConsistent" THEN getScriptSHA
                        ELSE scriptSHA
        /\ UNCHANGED <<db, rec, clean, wr, rd, reg>>

\* _ = yield(nil, fmt.Errorf("fetching next page failed: %w", err)); return
PaginateYieldError(more) ==
    /\ pg.pc = "failing"
    /\ pg' = [pg EXCEPT !.pc = "done", !.left = ~more,
                        !.out = Append(pg.out, Item(Nil, Errorf("fetching next page failed", pg.cause)))]
    /\ UNCHANGED <<db, rec, clean, scriptSHA, wr, rd, reg>>

----------------------------------------------------------------------------
(* Script registration by concurrent callers of FetchPageConsistent *)

MaxCallers == 2
Callers == 1 .. MaxCallers

MaxRounds == 2

\* One goroutine's FetchPageConsistent call: where it is, the handle
\* getScriptSHA gave it, the error it returns, whether it issued ScriptLoad
\* and EvalSha, and the number of calls it has made.
NoCall == [pc |-> "idle", sha |-> "", err |-> "", tried |-> FALSE, evaled |-> FALSE, round |-> 0]
\* shaMx (0: unlocked, else the goroutine holding it), the calls, and the
\* numbers of ScriptLoad commands issued and succeeded
NoCallers == [shaMx |-> 0, call |-> [c \in Callers |-> NoCall], loads |-> 0, loaded |-> 0]

\* A lock that is granted whoever holds it, and an unlock that is skipped
\* when the load failed.
LockGrantedAlways(c) == TRUE
UnlockedUnlessFailed(c) == IF reg.call[c].err # "" THEN c ELSE 0

\* r.shaMx.Lock() returns when no goroutine holds the mutex
LockGranted(c) == reg.shaMx = 0
\* defer r.shaMx.Unlock()
Unlocked(c) == 0

\* FetchPageConsistent is called and reaches getScriptSHA
RegCall(c) ==
    /\ reg.call[c].pc = "idle" /\ reg.call[c].round < MaxRounds
    /\ reg' = [reg EXCEPT !.call[c] = [NoCall EXCEPT !.pc = "lock",
                                                     !.round = reg.call[c].round + 1]]
    /\ UNCHANGED <<db, rec, clean, scriptSHA, wr, rd, pg>>

\* the mutex is taken and the cached handle is read
RegLock(c) ==
    /\ reg.call[c].pc = "lock" /\ LockGranted(c)
    /\ reg' = [reg EXCEPT !.shaMx = c,
                          !.call[c] = IF scriptSHA # ""
                                      THEN [@ EXCEPT !.pc = "unlock", !.sha = scriptSHA]
                                      ELSE [@ EXCEPT !.pc = "load"]]
    /\ UNCHANGED <<db, rec, clean, scriptSHA, wr, rd, pg>>

\* r.scriptSHA, err = r.client.ScriptLoad(ctx, rangeScript).Result(): the
\* value of a failed command is the empty string
RegScriptLoad(c, ok) ==
    /\ reg.call[c].pc = "load"
    /\ scriptSHA' = IF ok THEN ScriptHandle ELSE ""
    /\ reg' = [reg EXCEPT !.loads = @ + 1, !.loaded = IF ok THEN @ + 1 ELSE @,
                          !.call[c] = [@ EXCEPT !.pc = "unlock", !.tried = TRUE,
                                                !.sha = IF ok THEN ScriptHandle ELSE "",
                                                !.err = IF ok THEN ""
                                                        ELSE "failed to load lua range script"]]
    /\ UNCHANGED <<db, rec, clean, wr, rd, pg>>

\* getScriptSHA returns: the mutex is released, and FetchPageConsistent
\* returns "failed to load script" or goes on to EvalSha
RegUnlock(c) ==
    /\ reg.call[c].pc = "unlock"
    /\ reg' = [reg EXCEPT !.shaMx = Unlocked(c),
                          !.call[c] = IF reg.call[c].err # ""
                                      THEN [@ EXCEPT !.pc = "done",
                                                     !.err = Errorf("failed to load script", @)]
                                      ELSE [@ EXCEPT !.pc = "evalsha"]]
    /\ UNCHANGED <<db, rec, clean, scriptSHA, wr, rd, pg>>

\* r.client.EvalSha(ctx, sha, keys, args...)
RegEvalSha(c) ==
    /\ reg.call[c].pc = "evalsha"
    /\ reg' = [reg EXCEPT !.call[c] = [@ EXCEPT !.pc = "done", !.evaled = TRUE]]
    /\ UNCHANGED <<db, rec, clean, scriptSHA, wr, rd, pg>>

\* the goroutine has taken the result of its call
RegReturn(c) ==
    /\ reg.call[c].pc = "done"
    /\ reg' = [reg EXCEPT !.call[c] = [@ EXCEPT !.pc = "idle"]]
    /\ UNCHANGED <<db, rec, clean, scriptSHA, wr, rd, pg>>

----------------------------------------------------------------------------
(* Specifications *)

Offsets == 0 .. MaxOffset
Limits == 0 .. MaxLimit

Init ==
    /\ db = [k \in {} |-> StringVal("")]
    /\ rec = [id \in MoreIDs |-> NoRecord]
    /\ clean = TRUE
    /\ scriptSHA = ""
    /\ wr = NoWrite
    /\ rd = Idle
    /\ pg = NoPaginate
    /\ reg = NoCallers

\* the caller has taken the result of its call and is about to make the next
WriteReturn ==
    /\ wr # NoWrite
    /\ wr' = NoWrite
    /\ UNCHANGED <<db, rec, clean, scriptSHA, rd, pg, reg>>

ReadReturn ==
    /\ rd # Idle /\ ~InFlight
    /\ rd' = Idle
    /\ UNCHANGED <<db, rec, clean, scriptSHA, wr, pg, reg>>

\* The ids whose composed key is not the key of the index itself, and the
\* batches of such ids.
PlainIDs == { id \in IDs : namespacedKey(id) # IdxKey }
PlainBatches == { records \in Batches : \A i \in DOMAIN records : records[i].ID \in PlainIDs }

\* One caller, as in the tests: a call starts when the call before it has
\* returned, and the caller stops writing at the first error.
Solo == clean /\ wr = NoWrite /\ rd = Idle

Next ==
    \/ \E data \in Payloads, lastModified \in Times, id \in PlainIDs :
          Solo /\ Set(data, lastModified, id)
    \/ \E records \in PlainBatches : Solo /\ BulkSet(records)
    \/ \E id \in PlainIDs : Solo /\ Delete(id)
    \/ \E id \in PlainIDs : Solo /\ Get(id)
    \/ \E id \in PlainIDs : Solo /\ Exists(id)
    \/ \E from \in RangeBounds, to \in RangeBounds, offset \in Offsets, limit \in Limits :
          Solo /\ FetchPageCount(from, to, offset, limit)
    \/ FetchPageRange
    \/ FetchPageMGet
    \/ \E from \in RangeBounds, to \in RangeBounds, offset \in Offsets, limit \in Limits :
          Solo /\ FetchPageConsistentLoad(from, to, offset, limit)
    \/ FetchPageConsistentEval
    \/ WriteReturn
    \/ ReadReturn

Spec == Init /\ [][Next]_vars

\* The same caller with every id of IDs, the one that composes to the key of
\* the index included.
NextAnyID ==
    \/ \E data \in Payloads, lastModified \in Times, id \in IDs :
          Solo /\ Set(data, lastModified, id)
    \/ \E records \in Batches : Solo /\ BulkSet(records)
    \/ \E id \in IDs : Solo /\ Delete(id)
    \/ \E id \in IDs : Solo /\ Get(id)
    \/ \E id \in IDs : Solo /\ Exists(id)
    \/ \E from \in RangeBounds, to \in RangeBounds, offset \in Offsets, limit \in Limits :
          Solo /\ FetchPageCount(from, to, offset, limit)
    \/ FetchPageRange
    \/ FetchPageMGet
    \/ \E from \in RangeBounds, to \in RangeBounds, offset \in Offsets, limit \in Limits :
          Solo /\ FetchPageConsistentLoad(from, to, offset, limit)
    \/ FetchPageConsistentEval
    \/ WriteReturn
    \/ ReadReturn

SpecAnyID == Init /\ [][NextAnyID]_vars

\* A second client writes beside the reader: its writes land between the steps
\* of a range read.  The reader asks for pages of MaxLimit items.  A
\* finished call returns before the other client's next step (a return touches
\* nothing the other client reads, so the order of the two is immaterial).
Beside == clean /\ (rd = Idle \/ InFlight)

NextConc ==
    \/ \E data \in Payloads, lastModified \in Times, id \in PlainIDs :
          Beside /\ Set(data, lastModified, id)
    \/ \E records \in PlainBatches : Beside /\ BulkSet(records)
    \/ \E id \in PlainIDs : Beside /\ Delete(id)
    \/ \E id \in PlainIDs : wr = NoWrite /\ Get(id)
    \/ \E id \in PlainIDs : wr = NoWrite /\ Exists(id)
    \/ \E to \in RangeBounds, offset \in Offsets :
          wr = NoWrite /\ FetchPageCount(NoTime, to, offset, MaxLimit)
    \/ wr = NoWrite /\ FetchPageRange
    \/ wr = NoWrite /\ FetchPageMGet
    \/ \E to \in RangeBounds, offset \in Offsets :
          wr = NoWrite /\ FetchPageConsistentLoad(NoTime, to, offset, MaxLimit)
    \/ wr = NoWrite /\ FetchPageConsistentEval
    \/ WriteReturn
    \/ ReadReturn

SpecConc == Init /\ [][NextConc]_vars

\* The second client's Set and Delete beside the two range reads.
NextConcSet ==
    \/ \E data \in Payloads, lastModified \in Times, id \in PlainIDs :
          Beside /\ Set(data, lastModified, id)
    \/ \E id \in PlainIDs : Beside /\ Delete(id)
    \/ \E to \in RangeBounds, offset \in Offsets :
          wr = NoWrite /\ FetchPageCount(NoTime, to, offset, MaxLimit)
    \/ wr = NoWrite /\ FetchPageRange
    \/ wr = NoWrite /\ FetchPageMGet
    \/ \E to \in RangeBounds, offset \in Offsets :
          wr = NoWrite /\ FetchPageConsistentLoad(NoTime, to, offset, MaxLimit)
    \/ wr = NoWrite /\ FetchPageConsistentEval
    \/ WriteReturn
    \/ ReadReturn

SpecConcSet == Init /\ [][NextConcSet]_vars

\* Batches of any ids written beside a reader of any id.
NextConcBulk ==
    \/ \E records \in Batches : Beside /\ BulkSet(records)
    \/ \E id \in IDs : wr = NoWrite /\ Get(id)
    \/ \E id \in IDs : wr = NoWrite /\ Exists(id)
    \/ \E to \in RangeBounds, offset \in Offsets :
          wr = NoWrite /\ FetchPageCount(NoTime, to, offset, MaxLimit)
    \/ wr = NoWrite /\ FetchPageRange
    \/ wr = NoWrite /\ FetchPageMGet
    \/ \E to \in RangeBounds, offset \in Offsets :
          wr = NoWrite /\ FetchPageConsistentLoad(NoTime, to, offset, MaxLimit)
    \/ wr = NoWrite /\ FetchPageConsistentEval
    \/ WriteReturn
    \/ ReadReturn

SpecConcBulk == Init /\ [][NextConcBulk]_vars

\* Paginate over the page functions of the tests, with offset and limit up to
\* the number of items: one call, and a consumer that ranges over the returned
\* sequence and may leave its loop at any item.
NextPaginate ==
    \/ \E src \in StaticSources, offset \in 0 .. MaxItems, limit \in 0 .. MaxItems :
          Paginate(src, NoTime, NoTime, offset, limit)
    \/ \E src \in FailingSources, offset \in 0 .. MaxItems, limit \in 0 .. MaxItems :
          Paginate(src, NoTime, NoTime, offset, limit)
    \/ \E more \in BOOLEAN : PaginateYield(more)
    \/ \E more \in BOOLEAN : PaginateYieldError(more)
    \/ PaginatePanic
    \/ PaginateNextPage

SpecPaginate == Init /\ [][NextPaginate]_vars

\* Paginate over a fixed slice of items that never fails, with a consumer that
\* ranges over the whole sequence: its loop never breaks and keeps running.
NextPaginateFull ==
    \/ \E src \in StaticSources, offset \in 0 .. MaxItems, limit \in 0 .. MaxItems :
          Paginate(src, NoTime, NoTime, offset, limit)
    \/ PaginateYield(TRUE)
    \/ PaginatePanic
    \/ PaginateNextPage

SpecPaginateFull == Init /\ [][NextPaginateFull]_vars /\ WF_vars(NextPaginateFull)

\* Paginate over FetchPage and FetchPageConsistent: the one caller writes, then
\* pages through the store; nothing is written while it does.
NextPaginateStore ==
    \/ \E data \in Payloads, lastModified \in Times, id \in PlainIDs :
          Solo /\ pg = NoPaginate /\ Set(data, lastModified, id)
    \/ \E records \in PlainBatches : Solo /\ pg = NoPaginate /\ BulkSet(records)
    \/ \E id \in PlainIDs : Solo /\ pg = NoPaginate /\ Delete(id)
    \/ WriteReturn
    \/ \E src \in StoreSources, to \in RangeBounds, offset \in Offsets, limit \in Limits :
          wr = NoWrite /\ Paginate(src, NoTime, to, offset, limit)
    \/ PaginateRange
    \/ PaginateMGet
    \/ PaginateEvalSha
    \/ \E more \in BOOLEAN : PaginateYield(more)
    \/ PaginatePanic
    \/ PaginateNextPage

SpecPaginateStore == Init /\ [][NextPaginateStore]_vars

\* Paginate over FetchPage and FetchPageConsistent while another client
\* writes: the total a page reports may differ from the one before.  The
\* other client Sets the Records of three ids, inside the window or past it,
\* and Deletes those of IDs, until the sequence has ended, between the three
\* commands of a FetchPage and between getScriptSHA and EVALSHA as well;
\* pages hold at least one item.
NextPaginateBeside ==
    \/ \E lastModified \in Times, id \in MoreIDs :
          namespacedKey(id) # IdxKey /\ pg.pc \notin {"done", "stopped", "failed", "failing", "panic"}
             /\ Set("p", lastModified, id)
    \/ \E id \in IDs : namespacedKey(id) # IdxKey /\ pg.pc \notin {"done", "stopped", "failed", "failing", "panic"}
             /\ Delete(id)
    \/ WriteReturn
    \/ \E src \in StoreSources, to \in RangeBounds, offset \in Offsets, limit \in Limits \ {0} :
          Paginate(src, NoTime, to, offset, limit)
    \/ PaginateRange
    \/ PaginateMGet
    \/ PaginateEvalSha
    \/ \E more \in BOOLEAN : PaginateYield(more)
    \/ PaginatePanic
    \/ PaginateNextPage

SpecPaginateBeside == Init /\ [][NextPaginateBeside]_vars

\* Paginate over page functions that fail: those of the tests, and FetchPage
\* and FetchPageConsistent over a store of up to three Records whose index
\* another client replaces by a string while the pages are consumed (Set with
\* the id "lmIdx" writes its payload at the key of the index), so that the
\* call for any later page may be the one that fails.  The page functions of
\* the tests read no store: they are called with the store empty.
NextPaginateFailing ==
    \/ \E src \in FailingSources, offset \in 0 .. MaxItems, limit \in 0 .. MaxItems :
          DOMAIN db = {} /\ Paginate(src, NoTime, NoTime, offset, limit)
    \/ \E id \in MoreIDs : namespacedKey(id) # IdxKey /\ pg.pc = "idle" /\ Set("p", 1, id)
    \/ /\ pg.pc \in {"ranging", "zrangebyscore", "mget", "evalsha"} /\ pg.src \in StoreSources
       /\ Set("p", 1, <<"lmIdx">>)
    \/ WriteReturn
    \/ \E src \in StoreSources, limit \in Limits \ {0} :
          wr = NoWrite /\ Paginate(src, NoTime, NoTime, 0, limit)
    \/ PaginateRange
    \/ PaginateMGet
    \/ PaginateEvalSha
    \/ \E more \in BOOLEAN : PaginateYield(more)
    \/ \E more \in BOOLEAN : PaginateYieldError(more)
    \/ PaginateNextPage

SpecPaginateFailing == Init /\ [][NextPaginateFailing]_vars

\* FetchPageConsistent against a server that may answer EVALSHA with any of
\* DriftedReplies.
NextDrift ==
    \/ \E data \in Payloads, lastModified \in Times, id \in PlainIDs :
          Solo /\ Set(data, lastModified, id)
    \/ WriteReturn
    \/ \E from \in RangeBounds, to \in RangeBounds, offset \in Offsets, limit \in Limits :
          Solo /\ FetchPageConsistentLoad(from, to, offset, limit)
    \/ FetchPageConsistentEval
    \/ \E reply \in DriftedReplies : FetchPageConsistentDrift(reply)
    \/ ReadReturn

SpecDrift == Init /\ [][NextDrift]_vars

\* Goroutines calling FetchPageConsistent on one RedisTKV at once, each up to
\* MaxRounds times; ScriptLoad may fail.  Every goroutine that can take a step
\* eventually takes one.
NextReg ==
    \/ \E c \in Callers : RegCall(c)
    \/ \E c \in Callers : RegLock(c)
    \/ \E c \in Callers, ok \in BOOLEAN : RegScriptLoad(c, ok)
    \/ \E c \in Callers : RegUnlock(c)
    \/ \E c \in Callers : RegEvalSha(c)
    \/ \E c \in Callers : RegReturn(c)

SpecReg == Init /\ [][NextReg]_vars /\ WF_vars(NextReg)

----------------------------------------------------------------------------
(* Properties *)

\* the Primary Store holds a value under the composed key of id
HasPrimary(id) == namespacedKey(id) \in DOMAIN db
\* the Ordering Index holds an entry whose member is the composed key of id
HasIndexEntry(id) == namespacedKey(id) \in ZMembers(db, IdxKey)
IndexScore(id) == db[IdxKey].z[namespacedKey(id)]

\* C1: after a successful Delete(id) the Primary Store holds no value for the
\* composed key of id and the Ordering Index holds no entry for it.
C1_DeleteRemovesBoth ==
    (wr.op = "Delete" /\ ~wr.err) =>
        \A id \in wr.ids : ~HasPrimary(id) /\ ~HasIndexEntry(id)

\* C2: after any sequence of successful writes the Ordering Index is 1:1 with
\* the Primary Store: a composed key is a member of the index exactly when it
\* has a primary value, with the timestamp of the stored write as its score.
C2_IndexMirrorsPrimary ==
    clean =>
        \A id \in IDs :
            /\ IsString(db, namespacedKey(id)) <=> HasIndexEntry(id)
            /\ HasIndexEntry(id) =>
                   rec[id].live /\ IndexScore(id) = Float64(UnixNano(rec[id].ts))

\* C3: after successful writes only, Get(id) returns the payload of the latest
\* write to id unless a Delete(id) followed it, and then the absent result
\* (nil, nil); Exists(id) is true exactly when Get returns a payload.
C3_GetReturnsLatestWrite ==
    (clean /\ ~InFlight) =>
        /\ rd.op = "Get" =>
               /\ ~rd.err
               /\ rd.val = (IF rec[rd.id].live THEN rec[rd.id].data ELSE Nil)
        /\ rd.op = "Exists" => (rd.found <=> rec[rd.id].live)

\* C3 for the ids whose composed key is not the key of the index itself.
C3_HoldsOffTheIndexKey ==
    (clean /\ ~InFlight /\ rd.op \in {"Get", "Exists"} /\ namespacedKey(rd.id) # IdxKey) =>
        /\ ~rd.err
        /\ rd.op = "Get" => rd.val = (IF rec[rd.id].live THEN rec[rd.id].data ELSE Nil)
        /\ rd.op = "Exists" => (rd.found <=> rec[rd.id].live)

\* C4: a successful Set returns existed = true exactly when the id had a value
\* at the time of the call.
C4_SetReportsPriorValue ==
    (wr.op = "Set" /\ ~wr.err) => (wr.existed <=> wr.prior)

\* C5: BulkSet of no records succeeds and changes nothing; after a successful
\* BulkSet every id of the batch exists and Get returns the payload of the
\* last record the batch holds for it.
C5_BulkSet ==
    wr.op = "BulkSet" =>
        /\ wr.n = 0 => (~wr.err /\ wr.same)
        /\ ~wr.err =>
               \A id \in wr.ids :
                   /\ RExists(db, namespacedKey(id)) > 0
                   /\ ~RGet(db, namespacedKey(id)).err
                   /\ rec[id].live
                   /\ RGet(db, namespacedKey(id)).val = rec[id].data

\* a successful BulkSet of two records for the same id has returned
C5_Witness ==
    wr.op = "BulkSet" /\ ~wr.err /\ wr.n = 2 /\ Cardinality(wr.ids) = 1

----------------------------------------------------------------------------
(* Range reads *)

RangeDone(op) == rd.op = op /\ ~InFlight /\ ~rd.err

\* the Index Entries with score in [from, to] of the reader's call, ascending
EntriesInRange ==
    IF IsZSet(db, IdxKey) THEN RangeMembers(db, IdxKey, rd.from, rd.to) ELSE <<>>

\* a timestamp lies in the window [from, to]; a missing bound is infinite
InWindow(ts, from, to) ==
    /\ (from = NoTime \/ from <= ts)
    /\ (to = NoTime \/ ts <= to)

\* the ids whose live Record was last modified within the reader's window
RecordsInWindow == { id \in IDs : rec[id].live /\ InWindow(rec[id].ts, rd.from, rd.to) }

Min(a, b) == IF a <= b THEN a ELSE b

\* C6: with no write during the call, FetchPage returns as total the number
\* of Index Entries with score in [from, to] and yields the payloads of the
\* entries at positions offset .. offset+limit-1 of them, oldest first.
C6_FetchPageSelectsByScore ==
    (RangeDone("FetchPage") /\ ~rd.dirty) =>
        LET page == Limit(EntriesInRange, rd.offset, rd.limit)
        IN  /\ rd.total = Len(EntriesInRange)
            /\ ~Panics(rd.raw)
            /\ Len(rd.raw) = Len(page)
            /\ \A i \in DOMAIN page :
                   IsString(db, page[i]) /\ rd.raw[i] = db[page[i]].val

\* C7: with no write during the call, FetchPageConsistent(from, to, 0, limit)
\* yields min(limit, matches) payloads, matches being the live Records last
\* modified within [from, to], and each payload is the payload of one of them.
C7_ConsistentFirstPage ==
    (RangeDone("FetchPageConsistent") /\ ~rd.dirty /\ clean /\ rd.offset = 0) =>
        /\ ~Panics(rd.raw)
        /\ Len(rd.raw) = Min(rd.limit, Cardinality(RecordsInWindow))
        /\ \A i \in DOMAIN rd.raw : \E id \in RecordsInWindow : rec[id].data = rd.raw[i]

\* C8: when entries are in range and the selection for offset/limit is empty,
\* FetchPageConsistent returns the number of entries in range as total with no
\* payloads; it returns total 0 only when no entry is in range.
C8_TotalWhenSelectionEmpty ==
    (RangeDone("FetchPageConsistent") /\ ~rd.dirty) =>
        LET inRange == Len(EntriesInRange)
            page == Limit(EntriesInRange, rd.offset, rd.limit)
        IN  /\ (inRange > 0 /\ Len(page) = 0) => (rd.total = inRange /\ rd.raw = <<>>)
            /\ rd.total = 0 => inRange = 0

\* what the three commands return when all are evaluated on the keyspace d
CountSelectFetch(d, from, to, offset, limit) ==
    LET selected == RZRangeByScore(d, IdxKey, from, to, TRUE, offset, limit).keys
    IN  [total |-> RZCount(d, IdxKey, from, to).int, values |-> RMGet(d, selected)]

\* C9: the pair FetchPageConsistent returns is what count, select and fetch
\* return on the one keyspace the script ran on, whatever was written before
\* and after that step of the call.
C9_ConsistentSnapshot ==
    [][(rd.op = "FetchPageConsistent" /\ rd.pc = "evalsha" /\ rd'.pc = "done" /\ ~rd'.err) =>
          LET one == CountSelectFetch(db, rd.from, rd.to, rd.offset, rd.limit)
          IN  rd'.total = one.total /\ rd'.raw = one.values]_vars

\* The snapshot holds whenever the script's selection is not empty or nothing
\* is in range.
C9_HoldsWhenSelected ==
    [][(/\ rd.op = "FetchPageConsistent" /\ rd.pc = "evalsha" /\ rd'.pc = "done" /\ ~rd'.err
        /\ \/ RZCount(db, IdxKey, rd.from, rd.to).int = 0
           \/ RZRangeByScore(db, IdxKey, rd.from, rd.to, TRUE, rd.offset, rd.limit).keys # <<>>) =>
          LET one == CountSelectFetch(db, rd.from, rd.to, rd.offset, rd.limit)
          IN  rd'.total = one.total /\ rd'.raw = one.values]_vars

\* C10: whatever the selected members hold at fetch time, iterating the
\* sequence a range read returned never aborts.
C10_IterationNeverAborts ==
    (RangeDone("FetchPage") \/ RangeDone("FetchPageConsistent")) => ~Panics(rd.raw)

----------------------------------------------------------------------------
(* Paginate *)

\* a Paginate call over a fixed slice of items that never fails, limit >= 1
StaticRun == pg.pc # "idle" /\ pg.src.kind = "static" /\ pg.limit >= 1
\* the number of items of the source
SourceSize == Len(pg.src.pages)
\* the items from the initial offset on
FromOffset ==
    IF pg.first >= SourceSize THEN <<>> ELSE Items(SubSeq(pg.src.pages, pg.first + 1, SourceSize))
IsPrefix(s, t) == Len(s) <= Len(t) /\ s = SubSeq(t, 1, Len(s))
CeilDiv(a, b) == (a + b - 1) \div b
Max(a, b) == IF a >= b THEN a ELSE b

\* C11: over a source of N items that reports total N, with limit >= 1 and
\* 0 <= offset < N, the sequence Paginate returns yields items offset .. N-1
\* once each in source order and no error item: what has been yielded is
\* always a prefix of them, and all of them when the sequence has ended.
C11_PaginateYieldsAll ==
    (StaticRun /\ pg.first < SourceSize) =>
        /\ pg.pc \notin {"failed", "panic"}
        /\ IsPrefix(pg.out, FromOffset)
        /\ pg.pc = "done" => pg.out = FromOffset

\* three pages of one item have been consumed to the end, from offset 1
C11_Witness ==
    /\ StaticRun /\ pg.pc = "done" /\ pg.first = 1 /\ pg.limit = 1
    /\ SourceSize = 4 /\ Len(pg.out) = 3

\* C12 as stated: one call and the page's own sequence when total <= limit,
\* and otherwise ceil((N - offset) / limit) calls for a full consumption.
C12_CallsAsStated ==
    (StaticRun /\ pg.pc = "done") =>
        IF SinglePage(SourceSize, pg.limit)
        THEN pg.calls = 1 /\ ~pg.wrapped /\ pg.out = Items(pg.it)
        ELSE pg.calls = CeilDiv(SourceSize - pg.first, pg.limit)

\* C12: one call and the page's own sequence when total <= limit; otherwise a
\* full consumption makes max(1, ceil((N - offset) / limit)) calls, the one
\* call being the first page, which is fetched even when offset >= N; at no
\* point have more calls been made.
C12_CallsOfFullConsumption ==
    StaticRun =>
        LET calls == IF SinglePage(SourceSize, pg.limit) THEN 1
                     ELSE Max(1, CeilDiv(SourceSize - pg.first, pg.limit))
        IN  /\ pg.calls <= calls
            /\ pg.pc = "done" =>
                   /\ pg.calls = calls
                   /\ SinglePage(SourceSize, pg.limit) => (~pg.wrapped /\ pg.out = Items(pg.it))

\* four items in pages of two have been consumed to the end with two calls
C12_Witness ==
    /\ StaticRun /\ pg.pc = "done" /\ pg.wrapped /\ pg.first = 0 /\ pg.limit = 2
    /\ SourceSize = 4 /\ pg.calls = 2 /\ Len(pg.out) = 4

\* a Paginate call over the store from offset 0 with limit >= 1
StoreRun ==
    /\ pg.pc # "idle" /\ pg.src.kind \in {"FetchPage", "FetchPageConsistent"}
    /\ pg.first = 0 /\ pg.limit >= 1
\* the ids whose live Record was last modified within the window of the call
PagedRecords == { id \in IDs : rec[id].live /\ InWindow(rec[id].ts, pg.from, pg.to) }
\* the ways to list those ids once each by ascending timestamp
AscendingListings ==
    { ids \in SeqsUpTo(IDs, Cardinality(PagedRecords)) :
          /\ Len(ids) = Cardinality(PagedRecords)
          /\ { ids[i] : i \in DOMAIN ids } = PagedRecords
          /\ \A i, j \in DOMAIN ids : i < j => rec[ids[i]].ts <= rec[ids[j]].ts }
PayloadsOf(ids) == [i \in DOMAIN ids |-> Item(rec[ids[i]].data, "")]
\* every member of the index has a primary value
NoStaleEntry == \A m \in ZMembers(db, IdxKey) : IsString(db, m)

\* C13: with no writer beside it, Paginate over FetchPage or over
\* FetchPageConsistent from offset 0 with limit >= 1 runs to the end without
\* an error and yields the payload of every live Record of the window exactly
\* once, by ascending timestamp.
C13_PaginateOverStore ==
    StoreRun =>
        /\ pg.pc \notin {"failed", "panic"}
        /\ \A i \in DOMAIN pg.out : pg.out[i].err = ""
        /\ pg.pc = "done" => \E ids \in AscendingListings : pg.out = PayloadsOf(ids)

\* C13 for the stores in which every Index Entry has its primary value.
C13_HoldsWithoutStaleEntry == NoStaleEntry => C13_PaginateOverStore

\* the run of TestPaginate: six items in pages of two, three calls
C12_SixItemsInThreeCalls ==
    /\ StaticRun /\ pg.pc = "done" /\ pg.first = 0 /\ pg.limit = 2 /\ pg.calls = 3
    /\ pg.out = Items(SubSeq(ItemNames, 1, 6))

\* a Paginate call over a page function that fails: at every call, or at
\* every call with an offset other than 0
FailingRun == pg.pc # "idle" /\ pg.src.kind \in {"errorOnFirstPage", "errorOnNextPage"}
ErrorItems == { i \in DOMAIN pg.out : pg.out[i].err # "" }

\* the first call of the run is one that fails
C14_FirstCallFails ==
    pg.src.kind = "errorOnFirstPage" \/ (pg.src.kind = "errorOnNextPage" /\ pg.first # 0)

\* C14: when the first page-fetch call fails, Paginate returns the error
\* "fetching first page failed" wrapping the cause and no sequence: nothing is
\* yielded and no second call is made.
C14_FirstPageError ==
    (FailingRun /\ C14_FirstCallFails) =>
        /\ pg.pc = "failed"
        /\ pg.err = "fetching first page failed: " \o pg.src.cause
        /\ pg.out = <<>>
        /\ pg.calls = 1

\* the first call was cancelled
C14_Witness ==
    /\ FailingRun /\ pg.src.kind = "errorOnFirstPage" /\ pg.src.cause = "context canceled"
    /\ pg.pc = "failed" /\ pg.limit = 2

\* the first call, at offset 1, failed in the page function that fails at
\* every offset but 0
C14_FailedAtOffsetOne ==
    /\ FailingRun /\ pg.src.kind = "errorOnNextPage" /\ pg.first = 1 /\ pg.pc = "failed"

\* the one item that reports the failure of a later call
C15_Report == Item(Nil, "fetching next page failed: " \o pg.cause)

\* C15: when a page-fetch call after the first fails, the sequence has yielded
\* the items of all earlier pages unchanged and in order, then yields one
\* item with a nil payload and the error "fetching next page failed" wrapping
\* the cause, and ends: no further item, no further call.
C15_NextPageError ==
    /\ pg.pc = "failing" =>
           /\ pg.calls >= 2 /\ Len(pg.totals) = pg.calls - 1 /\ pg.cause # ""
           /\ pg.out = Items(pg.fetched)
    /\ ErrorItems # {} =>
           /\ pg.pc = "done" /\ pg.calls >= 2 /\ Len(pg.totals) = pg.calls - 1
           /\ pg.out = Append(Items(pg.fetched), C15_Report)
    /\ (FailingRun /\ ~C14_FirstCallFails) =>
           /\ pg.pc # "failed"
           /\ pg.limit = 0 => pg.pc # "failing" /\ ErrorItems = {}
           /\ pg.limit >= 1 =>
                  /\ pg.calls <= 2
                  /\ pg.calls < 2 => ErrorItems = {}
                  /\ pg.calls = 2 =>
                         /\ pg.cause = pg.src.cause
                         /\ \/ pg.pc = "failing" /\ pg.out = Items(pg.src.pages)
                            \/ pg.pc = "done" /\ pg.out = Append(Items(pg.src.pages), C15_Report)

\* the run of TestPaginate_ErrorOnNextPage: the second call, at offset 3,
\* failed after a first page of two items that reported total 4
C15_Witness ==
    /\ FailingRun /\ pg.src.pages = <<"item1", "item2">> /\ pg.src.total = 4
    /\ pg.src.cause = "mock error on next page"
    /\ pg.first = 0 /\ pg.limit = 3 /\ pg.calls = 2 /\ pg.asked = <<0, 3>> /\ pg.pc = "done"
    /\ pg.out = << Item("item1", ""), Item("item2", ""),
                   Item(Nil, "fetching next page failed: mock error on next page") >>

\* the third call failed after two pages of one Record each, in FetchPage and
\* in FetchPageConsistent
C15_ThirdCallFailed ==
    /\ pg.src.kind = "FetchPage" /\ pg.limit = 1 /\ pg.calls = 3 /\ pg.pc = "done"
    /\ pg.totals = <<3, 3>> /\ Len(pg.out) = 3 /\ ErrorItems = {3}
C15_ThirdCallFailedConsistent ==
    /\ pg.src.kind = "FetchPageConsistent" /\ pg.limit = 1 /\ pg.calls = 3 /\ pg.pc = "done"
    /\ pg.totals = <<3, 3>> /\ Len(pg.out) = 3 /\ ErrorItems = {3}
\* the second call failed at its ZRANGEBYSCORE, after ZCOUNT had succeeded
C15_FailedAtRange ==
    pg.pc = "failing" /\ pg.calls = 2 /\ pg.cause = "failed to execute zrangebyscore"
\* the second call failed after a page of two Records
C15_FailedAfterPageOfTwo ==
    /\ pg.src.kind = "FetchPage" /\ pg.limit = 2 /\ pg.calls = 2 /\ pg.pc = "failing"
    /\ Len(pg.out) = 2
\* no page of the failing runs makes the ranging of it panic
C15_NoPanic == ~(pg.pc = "ranging" /\ (pg.nilIt \/ (pg.pos < Len(pg.it) /\ pg.it[pg.pos + 1] = Nil)))

\* C16: once the consumer has left its loop, at an item of any page, at the
\* last item of a page or at the error item, Paginate has made only the calls
\* for the pages up to that item, and it makes no call and yields nothing
\* from then on.
C16_NoFetchAfterStop ==
    /\ [](pg.left =>
            /\ pg.pc \in {"stopped", "done"}
            /\ pg.src.kind = "static" =>
                   /\ ErrorItems = {}
                   /\ pg.calls = ((Len(pg.out) - 1) \div pg.limit) + 1
            /\ (pg.src.kind = "errorOnNextPage" /\ pg.limit >= 1) =>
                   pg.calls = IF ErrorItems # {} THEN 2 ELSE 1)
    /\ [][pg.left => pg' = pg]_vars

\* the consumer left at the last item of the first of two pages
C16_Witness ==
    /\ pg.left /\ pg.pc = "stopped" /\ pg.wrapped /\ pg.src.kind = "static"
    /\ pg.limit = 2 /\ Len(pg.out) = 2 /\ SourceSize = 4 /\ pg.calls = 1

\* the consumer left at the error item
C16_LeftAtErrorItem == pg.left /\ ErrorItems # {}

----------------------------------------------------------------------------
(* The reply of the script *)

\* the reply is a list of an integer and a list
ExpectedShape(reply) ==
    /\ reply.kind = "list" /\ Len(reply.list) = 2
    /\ reply.list[1].kind = "int" /\ reply.list[2].kind = "list"
Replied == rd.op = "FetchPageConsistent" /\ rd.reply # NoReply

\* C17: for every reply that is not a list of an integer total and a list of
\* values, FetchPageConsistent returns ErrUnexpectedScriptResult with no
\* sequence and total 0; it does not abort.
C17_MalformedReplyIsNamedError ==
    (Replied /\ ~ExpectedShape(rd.reply)) =>
        /\ rd.pc = "done"
        /\ rd.err /\ rd.why = ErrUnexpectedScriptResult
        /\ rd.total = 0 /\ rd.raw = <<>>

\* C17 for the replies other than nil that are no list or a list of another
\* length than two.
C17_HoldsForWrongLength ==
    (Replied /\ rd.reply.kind # "nil" /\ (rd.reply.kind # "list" \/ Len(rd.reply.list) # 2)) =>
        /\ rd.pc = "done"
        /\ rd.err /\ rd.why = ErrUnexpectedScriptResult
        /\ rd.total = 0 /\ rd.raw = <<>>

----------------------------------------------------------------------------
(* Script registration *)

\* C18: with any number of goroutines in FetchPageConsistent at once, the
\* handle is set by one successful ScriptLoad, no ScriptLoad is issued once it
\* is set, every EvalSha uses the cached handle, and the handle never changes
\* once it is not empty.
C18_OneRegistration ==
    /\ [](/\ reg.loaded = (IF scriptSHA # "" THEN 1 ELSE 0)
          /\ \A c \in Callers :
                 (reg.call[c].pc = "evalsha" \/ reg.call[c].evaled) =>
                     (reg.call[c].sha # "" /\ reg.call[c].sha = scriptSHA))
    /\ [][scriptSHA # "" => (scriptSHA' = scriptSHA /\ reg'.loads = reg.loads)]_vars

\* both goroutines have run the script, one of them having loaded it
C18_Witness ==
    /\ \A c \in Callers : reg.call[c].evaled /\ reg.call[c].round = 1
    /\ \E c \in Callers : ~reg.call[c].tried
    /\ reg.loads = 1

\* C19: a failed ScriptLoad is returned as the error of FetchPageConsistent
\* without EvalSha; it leaves the handle empty and the mutex released; a call
\* that finds the handle empty issues ScriptLoad again; and every call that
\* has started returns.
C19_FailedRegistration ==
    /\ [](\A c \in Callers :
            LET call == reg.call[c]
            IN  /\ call.err # "" => (call.tried /\ ~call.evaled /\ call.sha = "")
                /\ (call.pc = "unlock" /\ call.err # "") => scriptSHA = ""
                /\ (call.pc = "done" /\ call.err # "") =>
                       call.err = "failed to load script: failed to load lua range script"
                /\ reg.shaMx = c => call.pc \in {"load", "unlock"}
                /\ (call.pc \in {"unlock", "evalsha", "done"} /\ ~call.tried) => call.sha # "")
    /\ \A c \in Callers : (reg.call[c].pc = "lock") ~> (reg.call[c].pc = "done")

\* a goroutine's second call loaded the script after its first call failed to
C19_Witness ==
    \E c \in Callers :
        /\ reg.call[c].round = 2 /\ reg.call[c].tried /\ reg.call[c].evaled
        /\ reg.loads = 2 /\ reg.loaded = 1
        /\ \A o \in Callers \ {c} : reg.call[o].round = 0

----------------------------------------------------------------------------
(* BulkSet beside readers *)

\* the store holds, for every id of the batch just written, the payload and
\* the Index Entry of the batch's last record for it
BatchApplied ==
    /\ ~wr.err
    /\ \A id \in wr.ids :
           /\ IsString(db, namespacedKey(id)) /\ db[namespacedKey(id)].val = rec[id].data
           /\ HasIndexEntry(id) /\ IndexScore(id) = Float64(UnixNano(rec[id].ts))

\* C20: whatever the readers do beside it, a BulkSet takes the store in one
\* step from a state with none of the batch to a state with all of it, or
\* leaves the store as it was: no state in between is there to be read.
C20_BulkSetAllOrNothing ==
    [][(wr.op = "none" /\ wr'.op = "BulkSet") => (BatchApplied' \/ db' = db)]_vars

\* C20 for the batches none of whose ids composes to the key of the index.
C20_HoldsOffTheIndexKey ==
    [][(wr.op = "none" /\ wr'.op = "BulkSet" /\ wr'.ids \subseteq PlainIDs) =>
          (BatchApplied' \/ db' = db)]_vars

----------------------------------------------------------------------------
(* The frame of Delete *)

\* the keyspace without the primary value at key and without the index
PrimaryWithout(d, key) == [k \in (DOMAIN d) \ {key, IdxKey} |-> d[k]]
\* the Index Entries other than the one of key, with their scores
IndexWithout(d, key) == [m \in ZMembers(d, IdxKey) \ {key} |-> d[IdxKey].z[m]]

\* C21: Delete(id) of an id that has no Record returns no error and leaves
\* the Primary Store and the Ordering Index as they were; any Delete(id)
\* changes nothing but the primary value and the Index Entry of the composed
\* key of id.
C21_DeleteFrame ==
    [][(wr.op = "none" /\ wr'.op = "Delete") =>
          \A id \in wr'.ids :
              /\ ~rec[id].live => (~wr'.err /\ db' = db)
              /\ PrimaryWithout(db', namespacedKey(id)) = PrimaryWithout(db, namespacedKey(id))
              /\ IndexWithout(db', namespacedKey(id)) = IndexWithout(db, namespacedKey(id))]_vars

\* C21 for the ids whose composed key is not the key of the index itself.
C21_HoldsOffTheIndexKey ==
    [][(wr.op = "none" /\ wr'.op = "Delete" /\ wr'.ids \subseteq PlainIDs) =>
          \A id \in wr'.ids :
              /\ ~rec[id].live => (~wr'.err /\ db' = db)
              /\ PrimaryWithout(db', namespacedKey(id)) = PrimaryWithout(db, namespacedKey(id))
              /\ IndexWithout(db', namespacedKey(id)) = IndexWithout(db, namespacedKey(id))]_vars

----------------------------------------------------------------------------
(* Reads beside a writer.  The writer takes no step between the last command *)
(* of a range read and its return (Beside), so in a state where the read is  *)
(* done the keyspace is the one its last command ran on.                     *)

\* the entries of the window that the offset and limit of the call select
WindowPage == Limit(EntriesInRange, rd.offset, rd.limit)

\* the read has yielded a payload that is not the value of the entry the
\* window holds at that position when the payloads are fetched
OutsideWindowRead(op) ==
    /\ RangeDone(op)
    /\ \E i \in DOMAIN rd.raw :
           /\ rd.raw[i] # Nil
           /\ i > Len(WindowPage) \/ rd.raw[i] # RMGet(db, WindowPage)[i]

\* the total the read returned is not the number of entries in the window
\* when the payloads are fetched
StaleTotal == rd.total # Len(EntriesInRange)

\* C22: FetchPageConsistent never yields a payload from outside the window
\* and never yields payloads together with a stale total, whatever a
\* concurrent Set does; FetchPage does (C22_Witness).
C22_ConsistentNeverReadsOutside ==
    /\ ~OutsideWindowRead("FetchPageConsistent")
    /\ (RangeDone("FetchPageConsistent") /\ Len(rd.raw) > 0) => ~StaleTotal

\* FetchPage counted and selected one key while its score was in the window;
\* a Set then gave the Record a timestamp outside the window; FetchPage has
\* yielded the payload of that Set with total 1, and the window is empty
C22_Witness ==
    /\ OutsideWindowRead("FetchPage") /\ StaleTotal /\ rd.dirty
    /\ rd.total = 1 /\ Len(rd.keys) = 1 /\ Len(rd.raw) = 1 /\ EntriesInRange = <<>>
    /\ \E id \in PlainIDs :
           /\ rd.keys[1] = namespacedKey(id)
           /\ rec[id].live /\ ~InWindow(rec[id].ts, rd.from, rd.to)
           /\ rd.raw[1] = rec[id].data
           /\ HasIndexEntry(id) /\ ~InRange(IndexScore(id), rd.from, rd.to)

----------------------------------------------------------------------------
(* The key of the index among the keys of the Records *)

\* a write call has just been made
RecordWrite == wr.op = "none" /\ wr'.op \in {"Set", "BulkSet", "Delete"}
\* the composed keys of the ids the call names
WrittenKeys == { namespacedKey(id) : id \in wr'.ids }
\* the index is still a sorted set if it was one, or gone with its last entry,
\* never a string, and every entry of another key is kept with its score
IndexKept ==
    /\ ~IsString(db', IdxKey)
    /\ \A m \in ZMembers(db, IdxKey) \ WrittenKeys :
           m \in ZMembers(db', IdxKey) /\ db'[IdxKey].z[m] = db[IdxKey].z[m]

\* C23: no id of delimiter-free segments composes to the key of the Ordering
\* Index, so no Set, BulkSet or Delete overwrites, deletes or changes the type
\* of the index, and the index keeps the entries of all other keys across
\* every record write.
C23_IndexKeyIsNoRecordKey ==
    [][RecordWrite => (IdxKey \notin WrittenKeys /\ IndexKept)]_vars

\* The index is kept by every write none of whose ids composes to its key.
C23_HoldsOffTheIndexKey ==
    [][(RecordWrite /\ IdxKey \notin WrittenKeys) => IndexKept]_vars

----------------------------------------------------------------------------
(* Termination of a full consumption *)

\* the consumer's loop has ended: the sequence is exhausted, or ranging over
\* it has aborted
Ended == pg.pc \in {"done", "panic"}
\* a page has been exhausted and the next one fetched
FetchedNext == pg.pc = "ranging" /\ pg'.pc = "ranging" /\ pg'.calls = pg.calls + 1

\* A consumer that ranges over the whole sequence reaches the end of it.
C24_Terminates == (pg.pc = "ranging") ~> Ended

\* C24 for limit >= 1.
C24_EndsWhenLimitPositive == (pg.pc = "ranging" /\ pg.limit >= 1) ~> Ended

\* C24: over a source with a finite total, for every offset >= 0 and every
\* limit >= 0, limit 0 with total > 0 included, every fetch of a next page is
\* made at a greater offset than the one before, and a consumer that ranges
\* over the whole sequence reaches the end of it after finitely many page
\* fetches.
C24_FullConsumptionEnds ==
    /\ [][FetchedNext => pg'.offset > pg.offset]_vars
    /\ C24_Terminates

\* With limit 0 a fetch of the next page leaves the loop where it was: the
\* same offset, the same total, an empty page again.
C24_LimitZeroRepeats ==
    [][(FetchedNext /\ pg.limit = 0) =>
          /\ pg'.offset = pg.offset /\ pg'.total = pg.total
          /\ pg'.it = <<>> /\ pg'.pos = 0 /\ ~pg'.nilIt /\ pg'.wrapped]_vars

----------------------------------------------------------------------------
(* The two range reads on one keyspace *)

\* both reads return the same total and the same payloads
SameResult(from, to, offset, limit) ==
    LET plain == FetchPage(db, from, to, offset, limit)
        consistent == FetchPageConsistent(db, from, to, offset, limit)
    IN  /\ plain.err = "" /\ consistent.err = ""
        /\ plain.total = consistent.total
        /\ plain.it = consistent.it
\* the entries the window of the call holds, and those of them that the
\* offset and limit select
InRangeOf(from, to) == IF IsZSet(db, IdxKey) THEN RangeMembers(db, IdxKey, from, to) ELSE <<>>
SelectionOf(from, to, offset, limit) == Limit(InRangeOf(from, to), offset, limit)

\* C25: with no writer beside them, on every store the writes can produce
\* and for every from, to, offset and limit, FetchPage and
\* FetchPageConsistent return the same total and the same payload sequence.
C25_SameTotalAndPayloads ==
    \A from \in RangeBounds, to \in RangeBounds, offset \in Offsets, limit \in Limits :
        SameResult(from, to, offset, limit)

\* The two agree whenever the window is empty or the selection is not.
C25_HoldsWhenSelected ==
    \A from \in RangeBounds, to \in RangeBounds, offset \in Offsets, limit \in Limits :
        (InRangeOf(from, to) = <<>> \/ SelectionOf(from, to, offset, limit) # <<>>) =>
            SameResult(from, to, offset, limit)

----------------------------------------------------------------------------
(* The page-fetch calls of Paginate *)

\* a page-fetch call after the first has just been made
CalledNext == pg.pc # "idle" /\ pg'.calls = pg.calls + 1

\* C26: the k-th page-fetch call (k >= 0) is made with the offset
\* initial offset + k * limit and the from, to and limit of the Paginate call,
\* and a call after the first is made only when its offset is less than the
\* total the call before it reported.
C26_CallsInOrder ==
    /\ [](pg.pc # "idle" =>
            /\ Len(pg.asked) = pg.calls
            /\ \A k \in DOMAIN pg.asked : pg.asked[k] = pg.first + (k - 1) * pg.limit)
    /\ [][CalledNext =>
              /\ pg.wrapped
              /\ Len(pg.totals) = pg.calls
              /\ pg'.offset = pg.first + pg.calls * pg.limit
              /\ pg'.offset < pg.totals[pg.calls]
              /\ pg'.asked = Append(pg.asked, pg'.offset)
              /\ pg'.from = pg.from /\ pg'.to = pg.to /\ pg'.limit = pg.limit
              /\ pg'.first = pg.first /\ pg'.src = pg.src]_vars

\* with limit 1 the first page reported total 2 and the second, after a Set
\* brought a third Record into the window, total 3: the third call was made
\* at offset 2, which the first total would not have allowed
C26_Witness ==
    /\ pg.src.kind = "FetchPage" /\ pg.limit = 1 /\ pg.first = 0
    /\ pg.calls = 3 /\ pg.asked = <<0, 1, 2>>
    /\ Len(pg.totals) >= 2 /\ pg.totals[1] = 2 /\ pg.totals[2] = 3

\* with limit 1 the first page reported total 3 and the second, after a Set
\* moved a Record out of the window, total 2: no third call was made
C26_EndedByLaterTotal ==
    /\ pg.src.kind = "FetchPageConsistent" /\ pg.limit = 1 /\ pg.first = 0
    /\ pg.pc = "done" /\ pg.calls = 2 /\ pg.totals = <<3, 2>>

\* with limit 2 the second call was made at offset 2, and from offset 1 with
\* limit 1 at offset 2
C26_SecondCallAtLimitTwo == pg.limit = 2 /\ pg.first = 0 /\ pg.asked = <<0, 2>>
C26_SecondCallFromOffsetOne == pg.limit = 1 /\ pg.first = 1 /\ pg.asked = <<1, 2>>

====
